---- MODULE Spec2Model ----
(***************************************************************************)
(* Model of mapproxy/source/metadata.py: the WMSMetadataManager (a TTL     *)
(* cache in front of a GetCapabilities fetch, the request it builds, the   *)
(* metadata extraction and the layer resolver) and the module function     *)
(* merge_auto_metadata.  stores is history: the set of completed stores.   *)
(*                                                                         *)
(* Python values are tagged records: None, Str(<<chars>>), Dict(function   *)
(* from key to value), List(sequence).  A call that raises evaluates to    *)
(* Raise.  Strings are sequences of one-character strings so that lower(), *)
(* `in` and f-string formatting are computed, not assumed.                 *)
(***************************************************************************)
EXTENDS Integers, Sequences, FiniteSets, TLC

VARIABLES now, cache, pc, call, prev, cur, calls, stores, op, in1, in2, out

vars == <<now, cache, pc, call, prev, cur, calls, stores, op, in1, in2, out>>

(***************************************************************************)
(* Python values                                                           *)
(***************************************************************************)
None == [t |-> "none"]

Raise == [t |-> "raise"]

Str(s) == [t |-> "str", v |-> s]

Dict(f) == [t |-> "dict", v |-> f]

List(q) == [t |-> "list", v |-> q]

EmptyMap == [k \in {} |-> None]

EmptyDict == Dict(EmptyMap)

IsStr(x) == x.t = "str"

IsDict(x) == x.t = "dict"

\* Python truth value of x (bool(x))
Truthy(x) ==
    CASE x.t = "none" -> FALSE
      [] x.t = "str"  -> x.v # << >>
      [] x.t = "dict" -> DOMAIN x.v # {}
      [] x.t = "list" -> Len(x.v) > 0
      [] OTHER        -> TRUE

\* d.get(k, dflt) on the mapping d
Get(d, k, dflt) == IF k \in DOMAIN d THEN d[k] ELSE dflt

\* d[k] = v on a copy of the mapping d
Put(d, k, v) == [x \in DOMAIN d \cup {k} |-> IF x = k THEN v ELSE d[x]]

LowerChar(c) ==
    CASE c = "A" -> "a"
      [] c = "B" -> "b"
      [] c = "N" -> "n"
      [] c = "L" -> "l"
      [] OTHER   -> c

\* s.lower()
Lower(s) == [i \in 1..Len(s) |-> LowerChar(s[i])]

\* sub in s, for strings
Contains(sub, s) ==
    \E i \in 0..(Len(s) - Len(sub)) : SubSeq(s, i + 1, i + Len(sub)) = sub

\* str(x) as an f-string placeholder renders it
Format(x) ==
    CASE x.t = "none" -> <<"N", "o", "n", "e">>
      [] x.t = "str"  -> x.v
      [] OTHER        -> <<"?">>

(***************************************************************************)
(* WMSMetadataManager._process_layer_metadata                              *)
(***************************************************************************)
TitleSep == <<":", " ">>

LayerPrefix == <<"L", "a", "y", "e", "r", ":", " ">>

\* the attribution record built from a truthy legend
Attribution(layer, legend) ==
    Dict([title |-> Str(LayerPrefix \o Format(Get(layer, "name", Str(<< >>)))),
          url   |-> Get(legend.v, "url", Str(<< >>))])

ProcessLayerMetadata(layer) ==
    LET title    == Get(layer, "title", None)
        abstract == Get(layer, "abstract", None)
        legend   == Get(layer, "legend", None)
        m1 == IF Truthy(title) THEN Put(EmptyMap, "title", title) ELSE EmptyMap
        m2 == IF Truthy(abstract) /\ Truthy(title)
                  THEN Put(m1, "abstract", Str(title.v \o TitleSep \o abstract.v))
              ELSE IF Truthy(abstract) THEN Put(m1, "abstract", abstract)
              ELSE IF Truthy(title) THEN Put(m1, "abstract", title)
              ELSE m1
        m3 == IF Truthy(legend) THEN Put(m2, "attribution", Attribution(layer, legend))
              ELSE m2
    IN  Dict(m3)

(***************************************************************************)
(* WMSMetadataManager._find_layer_metadata                                 *)
(***************************************************************************)
\* the first index at which a for loop over the layers leaves the loop
\* (returns or raises), given the indices at which its body does so; 0 when
\* the loop runs to its end
FirstStop(stops) ==
    IF stops = {} THEN 0 ELSE CHOOSE i \in stops : \A j \in stops : i <= j

\* layer.get('name') == layer_name
ExactMatch(layer, name) == Get(layer, "name", None) = Str(name)

\* layer.get('name', '').lower() raises AttributeError when the value stored
\* under 'name' is None
LowerRaises(layer) == ~IsStr(Get(layer, "name", Str(<< >>)))

\* layer.get('name', '').lower() == layer_name_lower
CaseMatch(layer, name) ==
    /\ ~LowerRaises(layer)
    /\ Lower(Get(layer, "name", Str(<< >>)).v) = Lower(name)

\* layer_name_lower in layer.get('name', '').lower()
PartialMatch(layer, name) ==
    /\ ~LowerRaises(layer)
    /\ Contains(Lower(name), Lower(Get(layer, "name", Str(<< >>)).v))

FindLayerMetadata(layers, name) ==
    LET idx == 1..Len(layers)
        i1 == FirstStop({i \in idx : ExactMatch(layers[i], name)})
        i2 == FirstStop({i \in idx : LowerRaises(layers[i]) \/ CaseMatch(layers[i], name)})
        i3 == FirstStop({i \in idx : LowerRaises(layers[i]) \/ PartialMatch(layers[i], name)})
    IN  IF i1 # 0 THEN ProcessLayerMetadata(layers[i1])
        ELSE IF i2 # 0 THEN (IF LowerRaises(layers[i2]) THEN Raise
                             ELSE ProcessLayerMetadata(layers[i2]))
        ELSE IF i3 # 0 THEN (IF LowerRaises(layers[i3]) THEN Raise
                             ELSE ProcessLayerMetadata(layers[i3]))
        ELSE EmptyDict

(***************************************************************************)
(* WMSMetadataManager._extract_metadata                                    *)
(* capabilities is [md |-> value of metadata(), layers |-> layers_list()]  *)
(***************************************************************************)
ServiceRecord(md) ==
    Dict([title              |-> Get(md, "title", None),
          abstract           |-> Get(md, "abstract", None),
          contact            |-> Get(md, "contact", None),
          fees               |-> Get(md, "fees", None),
          access_constraints |-> Get(md, "access_constraints", None)])

ExtractMetadata(capabilities, target_layer) ==
    LET m1 == IF Truthy(capabilities.md)
              THEN Put(EmptyMap, "service", ServiceRecord(capabilities.md.v))
              ELSE EmptyMap
        layer_md == FindLayerMetadata(capabilities.layers, target_layer.v)
    IN  IF ~Truthy(target_layer) THEN Dict(m1)
        ELSE IF layer_md = Raise THEN Raise
        ELSE IF Truthy(layer_md) THEN Dict(Put(m1, "layer", layer_md))
        ELSE Dict(m1)

(***************************************************************************)
(* merge_auto_metadata                                                     *)
(***************************************************************************)
\* a merge in which a key the auto record has is never overwritten
OverrideAutoWins(merged, manual) ==
    [k \in DOMAIN merged \cup {x \in DOMAIN manual : manual[x] # None} |->
        IF k \in DOMAIN merged THEN merged[k] ELSE manual[k]]

\* a merge without the `is not None` test
OverrideWithNulls(merged, manual) ==
    [k \in DOMAIN merged \cup DOMAIN manual |->
        IF k \in DOMAIN manual THEN manual[k] ELSE merged[k]]

\* for key, value in manual.items(): if value is not None: merged[key] = value
Override(merged, manual) ==
    [k \in DOMAIN merged \cup {x \in DOMAIN manual : manual[x] # None} |->
        IF k \in DOMAIN manual /\ manual[k] # None THEN manual[k] ELSE merged[k]]

MergeAutoMetadata(manual_metadata, auto_metadata) ==
    IF ~Truthy(auto_metadata)
    THEN (IF Truthy(manual_metadata) THEN manual_metadata ELSE EmptyDict)
    ELSE IF Truthy(manual_metadata)
         THEN Dict(Override(auto_metadata.v, manual_metadata.v))
         ELSE Dict(auto_metadata.v)

(***************************************************************************)
(* WMSMetadataManager: the cache and get_wms_metadata                      *)
(***************************************************************************)
\* self._cache_ttl
TTL == 300

MaxClock == 301

MaxCalls == 2

Threads == {"t1", "t2"}

Urls == {<<"u">>}

TargetLayers == {None, Str(<<"N", "o", "n", "e">>), Str(<<"a">>)}

AuthConfigs == {None, Dict([username |-> Str(<<"a">>), password |-> Str(<<"b">>)])}

\* the clock moves by just under one TTL, by exactly one TTL or by just over it
Delays == {TTL - 1, TTL, TTL + 1}

\* what capabilities.metadata() and capabilities.layers_list() give
Caps1 ==
    [md     |-> Dict([title |-> Str(<<"s">>)]),
     layers |-> << [name |-> Str(<<"a">>), title |-> Str(<<"t">>)] >>]

Caps2 ==
    [md     |-> EmptyDict,
     layers |-> << [name |-> None, title |-> Str(<<"t">>)],
                   [name |-> Str(<<"A">>), abstract |-> Str(<<"x">>)] >>]

\* a document the capabilities parser rejects
BadDoc == [md |-> Raise, layers |-> << >>]

\* what http_client.open(cap_url) gives: it raises, or it returns a response
\* with a status code and a body
Responses ==
    { Raise,
      [code |-> 500, body |-> Caps1],
      [code |-> 200, body |-> BadDoc],
      [code |-> 200, body |-> Caps1],
      [code |-> 200, body |-> Caps2] }

\* parse_capabilities(BytesIO(cap_doc))
ParseCapabilities(doc) == IF doc = BadDoc THEN Raise ELSE doc

\* cache_key = f"{wms_url}|{target_layer}"
CacheKey(wms_url, target_layer) == wms_url \o <<"|">> \o Format(target_layer)

\* a freshness test that still serves an entry exactly TTL old
FreshInclusive(t, cached_time) == t - cached_time <= TTL

\* time.time() - cached_time < self._cache_ttl
Fresh(t, cached_time) == t - cached_time < TTL

\* the cache check of get_wms_metadata: whether the cached entry is served
CacheHit(c, key, t) == key \in DOMAIN c /\ Fresh(t, c[key].ts)

\* a fetch that does not look at the status code
FetchCapabilitiesAnyStatus(resp) ==
    IF resp = Raise THEN Raise ELSE resp.body

\* _fetch_capabilities from the response on: raise on a status other than
\* 200, else the body
FetchCapabilities(resp) ==
    IF resp = Raise THEN Raise
    ELSE IF resp.code # 200 THEN Raise
    ELSE resp.body

\* the body of the try block up to the extracted metadata
TryFetch(resp, target_layer) ==
    LET cap_doc == FetchCapabilities(resp)
        capabilities == IF cap_doc = Raise THEN Raise ELSE ParseCapabilities(cap_doc)
    IN  IF capabilities = Raise THEN Raise
        ELSE ExtractMetadata(capabilities, target_layer)

\* an except clause that caches the empty result
CacheAfterCachingFailure(c, key, t, metadata, by) ==
    Put(c, key, [ts |-> t, by |-> by,
                 md |-> IF metadata = Raise THEN EmptyDict ELSE metadata])

\* a manager that never stores what it fetched
CacheAfterNoStore(c, key, t, metadata, by) == c

\* a store that updates the value of an existing entry in place and leaves
\* its timestamp
CacheAfterInPlace(c, key, t, metadata, by) ==
    IF metadata = Raise THEN c
    ELSE IF key \in DOMAIN c THEN Put(c, key, [c[key] EXCEPT !.md = metadata])
    ELSE Put(c, key, [ts |-> t, md |-> metadata, by |-> by])

\* the cache after the try block: self._cache[cache_key] = (time.time(),
\* metadata) on success, untouched by the except clause.  by is the
\* auth_config of the storing call (history, not program state)
CacheAfter(c, key, t, metadata, by) ==
    IF metadata = Raise THEN c
    ELSE Put(c, key, [ts |-> t, md |-> metadata, by |-> by])

\* the value returned after the try block
ReturnAfter(metadata) == IF metadata = Raise THEN EmptyDict ELSE metadata

\* the record of one call: its arguments, what it saw and what it returned
NoCall ==
    [key |-> << >>, url |-> << >>, layer |-> None, auth |-> None, start |-> 0,
     age |-> -1, how |-> "none", nreq |-> 0, resp |-> None, ret |-> None,
     stamp |-> -1, by |-> None, before |-> EmptyMap]

\* what is kept of the call before the last one
Slim(r) == [r EXCEPT !.before = EmptyMap, !.resp = None, !.by = None,
                     !.age = -1, !.start = 0]

Pending == [t |-> "pending"]

MainInit ==
    /\ now = 0
    /\ cache = EmptyMap
    /\ pc = [t \in Threads |-> "idle"]
    /\ call = [t \in Threads |-> NoCall]
    /\ prev = NoCall
    /\ cur = NoCall
    /\ calls = 0
    /\ stores = {}

PureIdle ==
    /\ op = "none"
    /\ in1 = None
    /\ in2 = None
    /\ out = None

Init == MainInit /\ PureIdle

\* get_wms_metadata(wms_url, auth_config, target_layer) up to the cache check
\* (lines 50-57): a fresh entry is returned, anything else goes on to fetch
Call(t, wms_url, auth_config, target_layer) ==
    LET key == CacheKey(wms_url, target_layer)
        started == [NoCall EXCEPT !.key = key, !.url = wms_url,
                                  !.layer = target_layer, !.auth = auth_config,
                                  !.start = now, !.before = cache,
                                  !.ret = Pending,
                                  !.age = IF key \in DOMAIN cache
                                          THEN now - cache[key].ts ELSE -1]
        served == [started EXCEPT !.how = "hit", !.ret = cache[key].md,
                                  !.stamp = cache[key].ts, !.by = cache[key].by]
    IN  /\ pc[t] # "fetching"
        /\ calls < MaxCalls
        /\ calls' = calls + 1
        /\ IF CacheHit(cache, key, now)
           THEN /\ pc' = [pc EXCEPT ![t] = "done"]
                /\ call' = [call EXCEPT ![t] = served]
                /\ prev' = Slim(cur)
                /\ cur' = served
           ELSE /\ pc' = [pc EXCEPT ![t] = "fetching"]
                /\ call' = [call EXCEPT ![t] = [started EXCEPT !.nreq = 1]]
                /\ UNCHANGED <<prev, cur>>
        /\ UNCHANGED <<now, cache, stores, op, in1, in2, out>>

\* the rest of get_wms_metadata (lines 59-76) once the HTTP client answers
Respond(t, resp) ==
    LET metadata == TryFetch(resp, call[t].layer)
        finished == [call[t] EXCEPT
                        !.how = IF metadata = Raise THEN "failed" ELSE "stored",
                        !.resp = resp,
                        !.ret = ReturnAfter(metadata),
                        !.stamp = IF metadata = Raise THEN -1 ELSE now,
                        !.by = call[t].auth]
    IN  /\ pc[t] = "fetching"
        /\ cache' = CacheAfter(cache, call[t].key, now, metadata, call[t].auth)
        /\ pc' = [pc EXCEPT ![t] = "done"]
        /\ call' = [call EXCEPT ![t] = finished]
        /\ prev' = Slim(cur)
        /\ cur' = finished
        /\ stores' = IF metadata = Raise THEN stores
                     ELSE stores \cup {[key |-> call[t].key, ts |-> now, md |-> metadata]}
        /\ UNCHANGED <<now, calls, op, in1, in2, out>>

\* time passes
Tick(d) ==
    /\ now + d <= MaxClock
    /\ now' = now + d
    /\ UNCHANGED <<cache, pc, call, prev, cur, calls, stores, op, in1, in2, out>>

Next ==
    \/ \E t \in Threads, u \in Urls, a \in AuthConfigs, l \in TargetLayers :
          Call(t, u, a, l)
    \/ \E t \in Threads, r \in Responses : Respond(t, r)
    \/ \E d \in Delays : Tick(d)

Spec == Init /\ [][Next]_vars

\* calls made one after the other, by one caller
SeqThreads == {"t1"}

SeqNext ==
    \/ \E t \in SeqThreads, u \in Urls, a \in AuthConfigs, l \in TargetLayers :
          Call(t, u, a, l)
    \/ \E t \in SeqThreads, r \in Responses : Respond(t, r)
    \/ \E d \in Delays : Tick(d)

SeqSpec == Init /\ [][SeqNext]_vars

(***************************************************************************)
(* merge_auto_metadata applied to every pair of bounded inputs             *)
(***************************************************************************)
MetaKeys == {"title", "keywords", "contact"}

ValuesOf(k) ==
    CASE k = "title"    -> {None, Str(<<"s">>), Str(<<"t">>)}
      [] k = "keywords" -> {None, List(<<Str(<<"a">>), Str(<<"b">>)>>),
                            List(<<Str(<<"b">>)>>)}
      [] k = "contact"  -> {None,
                            Dict([person |-> Str(<<"p">>), email |-> Str(<<"e">>)]),
                            Dict([person |-> Str(<<"q">>), phone |-> Str(<<"n">>)])}

AllValues == UNION {ValuesOf(k) : k \in MetaKeys}

\* every mapping over a subset of MetaKeys
MetaMaps ==
    UNION { {f \in [S -> AllValues] : \A k \in S : f[k] \in ValuesOf(k)} :
            S \in SUBSET MetaKeys }

\* a metadata argument: None, {} or a record
MetaArgs == {None} \cup {Dict(f) : f \in MetaMaps}

MergeInit ==
    /\ MainInit
    /\ op = "merge"
    /\ in1 \in MetaArgs
    /\ in2 \in MetaArgs
    /\ out = Pending

\* out = merge_auto_metadata(in1, in2)
ApplyMerge ==
    /\ op = "merge"
    /\ out = Pending
    /\ out' = MergeAutoMetadata(in1, in2)
    /\ UNCHANGED <<now, cache, pc, call, prev, cur, calls, stores, op, in1, in2>>

MergeSpec == MergeInit /\ [][ApplyMerge]_vars

(***************************************************************************)
(* _find_layer_metadata applied to every bounded layer list and name       *)
(***************************************************************************)
MaxLayers == 2

\* the values capabilities.layers_list() may hold per field; a field may
\* also be missing
LayerFields ==
    [name     |-> {None, Str(<< >>), Str(<<"a">>), Str(<<"A">>), Str(<<"b", "a">>)},
     title    |-> {Str(<<"s">>), Str(<<"t">>)},
     abstract |-> {Str(<<"x">>)},
     legend   |-> {Dict([url |-> Str(<<"l">>)])}]

LayerValues == UNION {LayerFields[k] : k \in DOMAIN LayerFields}

RawLayers ==
    UNION { {f \in [S -> LayerValues] : \A k \in S : f[k] \in LayerFields[k]} :
            S \in SUBSET DOMAIN LayerFields }

LayerLists == UNION {[1..n -> RawLayers] : n \in 0..MaxLayers}

RequestedNames == {<<"a">>, <<"A">>, <<"b">>}

FindInit ==
    /\ MainInit
    /\ op = "find"
    /\ in1 \in LayerLists
    /\ in2 \in RequestedNames
    /\ out = Pending

\* out = self._find_layer_metadata(capabilities, in2) with layers_list() = in1
ApplyFind ==
    /\ op = "find"
    /\ out = Pending
    /\ out' = FindLayerMetadata(in1, in2)
    /\ UNCHANGED <<now, cache, pc, call, prev, cur, calls, stores, op, in1, in2>>

FindSpec == FindInit /\ [][ApplyFind]_vars

(***************************************************************************)
(* _process_layer_metadata applied to every bounded raw layer              *)
(***************************************************************************)
\* the values one raw layer may hold per field, null and empty ones
\* included; a field may also be missing
ProcessFields ==
    [name     |-> {Str(<< >>), Str(<<"a">>)},
     title    |-> {None, Str(<< >>), Str(<<"s">>)},
     abstract |-> {None, Str(<< >>), Str(<<"x">>)},
     legend   |-> {None, EmptyDict, Dict([url |-> Str(<<"l">>)])}]

ProcessValues == UNION {ProcessFields[k] : k \in DOMAIN ProcessFields}

ProcessLayers ==
    UNION { {f \in [S -> ProcessValues] : \A k \in S : f[k] \in ProcessFields[k]} :
            S \in SUBSET DOMAIN ProcessFields }

ProcessInit ==
    /\ MainInit
    /\ op = "process"
    /\ in1 \in ProcessLayers
    /\ in2 = None
    /\ out = Pending

\* out = self._process_layer_metadata(in1)
ApplyProcess ==
    /\ op = "process"
    /\ out = Pending
    /\ out' = ProcessLayerMetadata(in1)
    /\ UNCHANGED <<now, cache, pc, call, prev, cur, calls, stores, op, in1, in2>>

ProcessSpec == ProcessInit /\ [][ApplyProcess]_vars

(***************************************************************************)
(* _fetch_capabilities up to the HTTPClient it creates (lines 81-118): the *)
(* GetCapabilities URL and the authentication handed to the client         *)
(***************************************************************************)
\* the keys and values of lines 86-89
ServiceKey == <<"S", "E", "R", "V", "I", "C", "E">>

RequestKey == <<"R", "E", "Q", "U", "E", "S", "T">>

WmsValue == <<"W", "M", "S">>

GetCapabilitiesValue ==
    <<"G", "e", "t", "C", "a", "p", "a", "b", "i", "l", "i", "t", "i", "e", "s">>

\* s.find(c) + 1: the first position of the character c in s, 0 if none
Find(s, c) ==
    IF \A i \in 1..Len(s) : s[i] # c THEN 0
    ELSE CHOOSE i \in 1..Len(s) : s[i] = c /\ \A j \in 1..(i - 1) : s[j] # c

\* s.split(c)
RECURSIVE Split(_, _)
Split(s, c) ==
    IF Find(s, c) = 0 THEN <<s>>
    ELSE <<SubSeq(s, 1, Find(s, c) - 1)>>
            \o Split(SubSeq(s, Find(s, c) + 1, Len(s)), c)

\* c.join(parts)
RECURSIVE Join(_, _)
Join(parts, c) ==
    IF parts = << >> THEN << >>
    ELSE IF Len(parts) = 1 THEN Head(parts)
    ELSE Head(parts) \o <<c>> \o Join(Tail(parts), c)

\* urlparse(wms_url): the query is what follows the first '?'; scheme,
\* netloc, path and params are kept together as base (the URLs here have no
\* fragment)
UrlParse(url) ==
    LET i == Find(url, "?")
    IN  [base  |-> IF i = 0 THEN url ELSE SubSeq(url, 1, i - 1),
         query |-> IF i = 0 THEN << >> ELSE SubSeq(url, i + 1, Len(url))]

\* parse_qsl keeps a field of the query only when it has a '=' and a
\* non-empty value (keep_blank_values is False, strict_parsing is False)
KeptField(name_value) ==
    /\ Find(name_value, "=") # 0
    /\ Find(name_value, "=") < Len(name_value)

\* name, _, value = name_value.partition('=')
Partition(name_value) ==
    LET i == Find(name_value, "=")
    IN  [k |-> SubSeq(name_value, 1, i - 1),
         v |-> SubSeq(name_value, i + 1, Len(name_value))]

\* parse_qsl(query): the (name, value) pairs of the kept fields, in order
ParseQsl(query) ==
    LET kept == SelectSeq(Split(query, "&"), KeptField)
    IN  [i \in 1..Len(kept) |-> Partition(kept[i])]

\* whether the ordered mapping d (a sequence of [k, vs]) has the key k
HasKey(d, k) == \E i \in 1..Len(d) : d[i].k = k

\* parse_qs: if name in parsed_result: parsed_result[name].append(value)
\* else: parsed_result[name] = [value]
AppendValue(d, k, v) ==
    IF HasKey(d, k)
    THEN [i \in 1..Len(d) |->
             IF d[i].k = k THEN [k |-> k, vs |-> Append(d[i].vs, v)] ELSE d[i]]
    ELSE Append(d, [k |-> k, vs |-> <<v>>])

RECURSIVE CollectPairs(_, _)
CollectPairs(pairs, d) ==
    IF pairs = << >> THEN d
    ELSE CollectPairs(Tail(pairs), AppendValue(d, Head(pairs).k, Head(pairs).v))

\* parse_qs(query): a dict from name to the list of its values, in the order
\* the names first occur
ParseQs(query) == CollectPairs(ParseQsl(query), << >>)

\* an update that adds the value to those a key already has
SetParamAppending(d, k, vs) ==
    IF HasKey(d, k)
    THEN [i \in 1..Len(d) |->
             IF d[i].k = k THEN [k |-> k, vs |-> d[i].vs \o vs] ELSE d[i]]
    ELSE Append(d, [k |-> k, vs |-> vs])

\* query_params.update({k: vs}): an existing key keeps its place and gets
\* the new list, a new key goes last
SetParam(d, k, vs) ==
    IF HasKey(d, k)
    THEN [i \in 1..Len(d) |-> IF d[i].k = k THEN [k |-> k, vs |-> vs] ELSE d[i]]
    ELSE Append(d, [k |-> k, vs |-> vs])

\* quote_plus of one character: '=' and ' ' are escaped, letters and digits
\* are kept
QuoteChar(c) ==
    CASE c = "=" -> <<"%", "3", "D">>
      [] c = " " -> <<"+">>
      [] OTHER   -> <<c>>

RECURSIVE QuotePlus(_)
QuotePlus(s) == IF s = << >> THEN << >> ELSE QuoteChar(Head(s)) \o QuotePlus(Tail(s))

\* the fields name=value of one key, one per value (doseq=True)
EncodeKey(e) == [i \in 1..Len(e.vs) |-> QuotePlus(e.k) \o <<"=">> \o QuotePlus(e.vs[i])]

RECURSIVE EncodeFields(_)
EncodeFields(d) ==
    IF d = << >> THEN << >> ELSE EncodeKey(Head(d)) \o EncodeFields(Tail(d))

\* urlencode(query_params, doseq=True)
UrlEncode(d) == Join(EncodeFields(d), "&")

\* urlunparse((scheme, netloc, path, params, new_query, fragment))
UrlUnparse(base, query) == IF query = << >> THEN base ELSE base \o <<"?">> \o query

\* cap_url of lines 82-97
CapUrl(wms_url) ==
    LET parsed_url == UrlParse(wms_url)
        parsed == ParseQs(parsed_url.query)
        with_service == SetParam(parsed, ServiceKey, <<WmsValue>>)
        query_params == SetParam(with_service, RequestKey, <<GetCapabilitiesValue>>)
    IN  UrlUnparse(parsed_url.base, UrlEncode(query_params))

\* the arguments of HTTPClient(url=, username=, password=, headers=) of lines
\* 100-118
ClientArgs(wms_url, auth_config) ==
    LET creds == /\ Truthy(auth_config)
                 /\ "username" \in DOMAIN auth_config.v
                 /\ "password" \in DOMAIN auth_config.v
        hdrs  == Truthy(auth_config) /\ "headers" \in DOMAIN auth_config.v
    IN  [url      |-> CapUrl(wms_url),
         username |-> IF creds THEN auth_config.v["username"] ELSE None,
         password |-> IF creds THEN auth_config.v["password"] ELSE None,
         headers  |-> IF hdrs THEN auth_config.v["headers"] ELSE EmptyDict]

MaxParams == 2

\* scheme, host and path of the source URLs
UrlBase == <<"h", "t", "t", "p", ":", "/", "/", "x", "/", "w">>

VersionKey == <<"V", "E", "R", "S", "I", "O", "N">>

\* the fields a source URL's query may be made of: with a value, with an
\* empty value, without '=', and the names the builder sets itself
QueryFields ==
    { <<"m", "=", "1">>, <<"m", "=", "2">>, <<"n", "=", "1">>,
      <<"m", "=">>, <<"m">>,
      ServiceKey \o <<"=", "1">>, RequestKey \o <<"=", "1">>,
      VersionKey \o <<"=", "1">>,
      <<"s", "e", "r", "v", "i", "c", "e", "=", "1">> }

\* source URLs with up to MaxParams fields in the query
SourceUrls ==
    { UrlUnparse(UrlBase, Join(fs, "&")) :
        fs \in UNION {[1..n -> QueryFields] : n \in 0..MaxParams} }

AuthKeys == {"username", "password", "headers", "version"}

AuthValue(k) ==
    CASE k = "username" -> Str(<<"u">>)
      [] k = "password" -> Str(<<"p">>)
      [] k = "headers"  -> Dict([Authorization |-> Str(<<"t">>)])
      [] k = "version"  -> Str(<<"3">>)

\* auth_config: None, or a mapping over some of the keys a source may
\* configure
RequestAuthConfigs ==
    {None} \cup {Dict([k \in S |-> AuthValue(k)]) : S \in SUBSET AuthKeys}

RequestInit ==
    /\ MainInit
    /\ op = "request"
    /\ in1 \in SourceUrls
    /\ in2 \in RequestAuthConfigs
    /\ out = Pending

\* out = the HTTPClient arguments of self._fetch_capabilities(in1, in2)
ApplyRequest ==
    /\ op = "request"
    /\ out = Pending
    /\ out' = ClientArgs(in1, in2)
    /\ UNCHANGED <<now, cache, pc, call, prev, cur, calls, stores, op, in1, in2>>

RequestSpec == RequestInit /\ [][ApplyRequest]_vars

(***************************************************************************)
(* Properties of the cache and of get_wms_metadata                         *)
(***************************************************************************)
\* C1: a call returns the cached value only when the entry's age at the call,
\* now - timestamp, is below TTL; an entry of age TTL or more is never
\* returned, the call issues a fetch instead.
C1_CacheFreshness ==
    \A t \in Threads :
        /\ call[t].how = "hit" =>
              /\ call[t].age >= 0
              /\ call[t].age < TTL
              /\ call[t].start - call[t].stamp < TTL
        /\ call[t].age >= TTL => call[t].how # "hit" /\ call[t].nreq = 1

\* an entry exactly TTL old was found, not served, and fetched again
C1_Witness ==
    \E t \in Threads :
        /\ call[t].age = TTL
        /\ call[t].how = "stored"
        /\ call[t].nreq = 1

\* the same call as the one before it: same URL, target layer and auth
SameCall(a, b) == a.url = b.url /\ a.layer = b.layer /\ a.auth = b.auth

\* C2: of two successive calls with the same arguments and a successful
\* upstream, the second made within TTL of the first one's store issues no
\* request (one fetch in all) and returns the same value; made TTL or more
\* after it, it fetches again (two fetches in all).
C2_TTLFetchCount ==
    (prev.how = "stored" /\ cur.how \in {"hit", "stored"} /\ SameCall(prev, cur)) =>
        /\ cur.start - prev.stamp < TTL =>
              prev.nreq + cur.nreq = 1 /\ cur.ret = prev.ret
        /\ cur.start - prev.stamp >= TTL => prev.nreq + cur.nreq = 2

\* a second call TTL - 1 after the first was served from the cache
C2_Witness ==
    /\ prev.how = "stored"
    /\ cur.how = "hit"
    /\ SameCall(prev, cur)
    /\ cur.start - prev.stamp = TTL - 1
    /\ prev.nreq + cur.nreq = 1

\* the HTTP client raised, the status is not 200, the parser raised or the
\* extraction raised
UpstreamFails(resp, target_layer) ==
    \/ resp = Raise
    \/ resp.code # 200
    \/ ParseCapabilities(resp.body) = Raise
    \/ ExtractMetadata(ParseCapabilities(resp.body), target_layer) = Raise

\* C3: a call whose fetch, parse or extraction fails returns the empty
\* mapping; no exception reaches the caller.
C3_FailSoft ==
    \A t \in Threads :
        (call[t].how \in {"stored", "failed"}
            /\ UpstreamFails(call[t].resp, call[t].layer)) =>
                call[t].ret = EmptyDict /\ call[t].ret # Raise

\* a call whose document parsed and whose extraction raised returned {}
C3_Witness ==
    \E t \in Threads :
        /\ call[t].how = "failed"
        /\ call[t].resp # Raise
        /\ call[t].resp.code = 200
        /\ ParseCapabilities(call[t].resp.body) # Raise
        /\ call[t].ret = EmptyDict

\* C4: after a call that ended in a failure the cache is what it was when
\* the call began.
C4_NothingWrittenOnFailure ==
    cur.how = "failed" => cache = cur.before

\* a refresh of an expired entry failed and the entry is still there
C4_Witness ==
    /\ cur.how = "failed"
    /\ cur.key \in DOMAIN cur.before
    /\ cache = cur.before

\* C5: a call served from the cache has the auth configuration of the call
\* that stored the entry.
C5_KeyIncludesAuth ==
    \A t \in Threads : call[t].how = "hit" => call[t].by = call[t].auth

(***************************************************************************)
(* Properties of merge_auto_metadata                                       *)
(***************************************************************************)
Merged == op = "merge" /\ out # Pending

\* C6: every key the override maps to a non-null value has that value in
\* the merged record, whatever the auto record is.
C6_OverridePrecedence ==
    (Merged /\ IsDict(in1)) =>
        \A k \in DOMAIN in1.v :
            in1.v[k] # None =>
                /\ IsDict(out)
                /\ k \in DOMAIN out.v
                /\ out.v[k] = in1.v[k]

\* an override title replaced a different auto title
C6_Witness ==
    /\ Merged
    /\ IsDict(in1) /\ IsDict(in2)
    /\ "title" \in DOMAIN in1.v /\ "title" \in DOMAIN in2.v
    /\ in1.v["title"] # None /\ in2.v["title"] # None
    /\ in1.v["title"] # in2.v["title"]
    /\ out.v["title"] = in1.v["title"]

HasKeywords(m) ==
    IsDict(m) /\ "keywords" \in DOMAIN m.v /\ m.v["keywords"] # None

\* the keywords the merged record would carry: the override's, else the
\* auto record's
CarriedKeywords ==
    IF HasKeywords(in1) THEN in1.v["keywords"] ELSE in2.v["keywords"]

\* C8: when the override or the auto record carries keywords, the merged
\* record has no keywords key and has keyword_list = [{keywords: <them>}].
C8_KeywordTransform ==
    (Merged /\ (HasKeywords(in1) \/ HasKeywords(in2))) =>
        /\ IsDict(out)
        /\ "keywords" \notin DOMAIN out.v
        /\ "keyword_list" \in DOMAIN out.v
        /\ out.v["keyword_list"] = List(<<Dict([keywords |-> CarriedKeywords])>>)

(***************************************************************************)
(* Properties of _find_layer_metadata                                      *)
(***************************************************************************)
Found == op = "find" /\ out # Pending

\* the layer has a name, and it is this string
Named(layer) == "name" \in DOMAIN layer /\ IsStr(layer["name"])

Tier1(layer, name) == Named(layer) /\ layer["name"].v = name

Tier2(layer, name) == Named(layer) /\ Lower(layer["name"].v) = Lower(name)

Tier3(layer, name) == Named(layer) /\ Contains(Lower(name), Lower(layer["name"].v))

\* the least index of a set of indices, 0 if it is empty
Least(S) == IF S = {} THEN 0 ELSE CHOOSE i \in S : \A j \in S : i <= j

Exact(layers, name) == Least({i \in 1..Len(layers) : Tier1(layers[i], name)})

Insensitive(layers, name) == Least({i \in 1..Len(layers) : Tier2(layers[i], name)})

Substring(layers, name) == Least({i \in 1..Len(layers) : Tier3(layers[i], name)})

\* the index the three-tier policy selects, 0 if no tier matches
Selected(layers, name) ==
    IF Exact(layers, name) # 0 THEN Exact(layers, name)
    ELSE IF Insensitive(layers, name) # 0 THEN Insensitive(layers, name)
    ELSE Substring(layers, name)

\* C9: the result is derived from the first exact match if there is one,
\* else from the first case-insensitive match, else from the first layer
\* whose lower-cased name contains the lower-cased requested name.
C9_TierOrder ==
    (Found /\ Selected(in1, in2) # 0) =>
        out = ProcessLayerMetadata(in1[Selected(in1, in2)])

\* C10: the resolver never raises, and returns {} when no tier matches.
C10_NoMatchFailSoft ==
    Found =>
        /\ out # Raise
        /\ Selected(in1, in2) = 0 => out = EmptyDict

(***************************************************************************)
(* Properties of _process_layer_metadata                                   *)
(***************************************************************************)
Processed == op = "process" /\ out # Pending

\* C11: a layer with a title and an abstract gets the abstract
\* "<title>: <abstract>"; a layer with an abstract only keeps it unchanged
\* and gets no title key; a layer with a title only gets the title and no
\* abstract key.
C11_AbstractConstruction ==
    Processed =>
        LET title    == Get(in1, "title", None)
            abstract == Get(in1, "abstract", None)
        IN  /\ (Truthy(title) /\ Truthy(abstract)) =>
                  Get(out.v, "abstract", None) = Str(title.v \o <<":", " ">> \o abstract.v)
            /\ (~Truthy(title) /\ Truthy(abstract)) =>
                  /\ Get(out.v, "abstract", None) = abstract
                  /\ "title" \notin DOMAIN out.v
            /\ (Truthy(title) /\ ~Truthy(abstract)) =>
                  /\ Get(out.v, "title", None) = title
                  /\ "abstract" \notin DOMAIN out.v

\* the layer lacks a usable name, or has neither a title nor an abstract
Invalid(layer) ==
    \/ ~Truthy(Get(layer, "name", None))
    \/ ~Truthy(Get(layer, "title", None)) /\ ~Truthy(Get(layer, "abstract", None))

\* C12: a lookup that selects a layer without a name, or without both title
\* and abstract, returns no record derived from it, whatever else the layer
\* carries: its result is empty.
C12_InvalidLayersExcluded ==
    (Found /\ out # Raise /\ Selected(in1, in2) # 0
           /\ Invalid(in1[Selected(in1, in2)])) =>
        out = EmptyDict

(***************************************************************************)
(* Properties of the GetCapabilities request                               *)
(***************************************************************************)
Requested == op = "request" /\ out # Pending

NonEmpty(s) == s # << >>

\* the fields of a URL's query as written, empty ones left out
FieldsOf(url) == SelectSeq(Split(UrlParse(url).query, "&"), NonEmpty)

\* the name of a field: what precedes its '=', all of it if it has none
FieldName(f) == IF Find(f, "=") = 0 THEN f ELSE SubSeq(f, 1, Find(f, "=") - 1)

\* the positions of the fields named k
NamedFields(fields, k) == {i \in 1..Len(fields) : FieldName(fields[i]) = k}

\* how often the field f occurs
Occurrences(fields, f) == Cardinality({i \in 1..Len(fields) : fields[i] = f})

C14_QueryPreserved ==
    Requested =>
        LET fs   == FieldsOf(out.url)
            base == FieldsOf(in1)
        IN  \A i \in 1..Len(base) :
                FieldName(base[i]) \notin {ServiceKey, RequestKey, VersionKey} =>
                    Occurrences(fs, base[i]) = Occurrences(base, base[i])

\* C15: a caller that configures a version v gets a URL with VERSION=v; a
\* caller that configures none gets no VERSION field beyond those of the
\* source URL.
C15_VersionConditional ==
    Requested =>
        LET fs       == FieldsOf(out.url)
            base     == FieldsOf(in1)
            supplied == IsDict(in2) /\ "version" \in DOMAIN in2.v
        IN  /\ supplied =>
                  /\ NamedFields(fs, VersionKey) # {}
                  /\ \A i \in NamedFields(fs, VersionKey) :
                        fs[i] = VersionKey \o <<"=">> \o in2.v["version"].v
            /\ ~supplied =>
                  Cardinality(NamedFields(fs, VersionKey))
                      <= Cardinality(NamedFields(base, VersionKey))

\* C16: the HTTP client gets at most one style of authentication: the
\* configured username and password if there are any and then no headers,
\* else the configured headers, else nothing.
C16_AuthExclusive ==
    Requested =>
        LET creds == /\ Truthy(in2)
                     /\ "username" \in DOMAIN in2.v
                     /\ "password" \in DOMAIN in2.v
            hdrs  == Truthy(in2) /\ "headers" \in DOMAIN in2.v
        IN  /\ ~(out.username # None /\ Truthy(out.headers))
            /\ creds =>
                  /\ out.username = in2.v["username"]
                  /\ out.password = in2.v["password"]
                  /\ ~Truthy(out.headers)
            /\ (~creds /\ hdrs) =>
                  /\ out.headers = in2.v["headers"]
                  /\ out.username = None /\ out.password = None
            /\ (~creds /\ ~hdrs) =>
                  /\ out.username = None /\ out.password = None
                  /\ ~Truthy(out.headers)

(***************************************************************************)
(* Properties of the extracted service record, of nested contacts, and of  *)
(* the cache under concurrent callers                                      *)
(***************************************************************************)
\* null, empty, or a string of blanks only
Blank(x) == ~Truthy(x) \/ (IsStr(x) /\ \A i \in 1..Len(x.v) : x.v[i] = " ")

\* C17: the service record a successful fetch returns has no field whose
\* value is null, empty or whitespace only.
C17_NoEmptyServiceFields ==
    \A t \in Threads :
        (call[t].how = "stored" /\ "service" \in DOMAIN call[t].ret.v) =>
            \A k \in DOMAIN call[t].ret.v["service"].v :
                ~Blank(call[t].ret.v["service"].v[k])

\* the value under contact is a record
HasContact(m) ==
    IsDict(m) /\ "contact" \in DOMAIN m.v /\ IsDict(m.v["contact"])

\* C18: when the override and the auto record both have a contact, the
\* merged contact has every non-null sub-field of the override's contact
\* with the override's value, and every sub-field only the auto contact has
\* with the auto value.
C18_ContactFieldMerge ==
    (Merged /\ HasContact(in1) /\ HasContact(in2)) =>
        LET o == in1.v["contact"].v
            a == in2.v["contact"].v
        IN  /\ HasContact(out)
            /\ \A k \in DOMAIN o :
                  o[k] # None =>
                      /\ k \in DOMAIN out.v["contact"].v
                      /\ out.v["contact"].v[k] = o[k]
            /\ \A k \in DOMAIN a \ DOMAIN o :
                  /\ k \in DOMAIN out.v["contact"].v
                  /\ out.v["contact"].v[k] = a[k]

\* the cache entry or served value is what one completed store wrote: its
\* value together with its timestamp
StoredOnce(key, ts, md) == [key |-> key, ts |-> ts, md |-> md] \in stores

\* C19: in every interleaving of the callers, each cache entry, and each
\* value a cache hit returns with the timestamp it was served under, is the
\* value and the timestamp of one completed successful store for that key.
C19_NoTornReads ==
    /\ \A k \in DOMAIN cache : StoredOnce(k, cache[k].ts, cache[k].md)
    /\ \A t \in Threads :
          call[t].how = "hit" => StoredOnce(call[t].key, call[t].stamp, call[t].ret)

\* two callers missed the same key at once, fetched different results at
\* different times, and the cache holds the whole result of one of them
C19_Witness ==
    \E t, u \in Threads :
        /\ t # u
        /\ call[t].how = "stored" /\ call[u].how = "stored"
        /\ call[t].key = call[u].key
        /\ call[t].age = -1 /\ call[u].age = -1
        /\ call[t].ret # call[u].ret
        /\ call[t].stamp < call[u].stamp
        /\ call[u].key \in DOMAIN cache
        /\ cache[call[u].key].md = call[u].ret
        /\ cache[call[u].key].ts = call[u].stamp

C21_KeysInjective ==
    \A t, u \in Threads :
        (/\ call[t].how = "stored"
         /\ call[u].how \in {"hit", "stored"}
         /\ call[t].key = call[u].key) =>
            call[t].url = call[u].url /\ call[t].layer = call[u].layer

\* the record is absent, or none of its values is null
NoNulls(m) == IsDict(m) => \A k \in DOMAIN m.v : m.v[k] # None

\* C22: when the auto record has no null value (an empty or absent auto
\* record included), the merged record is a mapping without a null value;
\* a key the override maps to null is in it only if the auto record
\* supplies it.
C22_NoNullFromOverride ==
    (Merged /\ NoNulls(in2)) =>
        /\ IsDict(out)
        /\ \A k \in DOMAIN out.v : out.v[k] # None
        /\ IsDict(in1) =>
              \A k \in DOMAIN in1.v :
                  (in1.v[k] = None /\ k \in DOMAIN out.v) =>
                      IsDict(in2) /\ k \in DOMAIN in2.v

====
